---- MODULE Spec2Model ----
(***************************************************************************)
(* State-machine model of two process-model blocks of idaes-pse:          *)
(*   - HelmNtuCondenserData (power_generation/unit_models/helm/           *)
(*     condenser_ntu.py): its staged initialize() sequencer and the       *)
(*     configuration checks of build();                                    *)
(*   - PIDBlockData (dynamic/pid_controller.py): the expressions and the  *)
(*     output constraint that build() emits.                               *)
(* Each block has a specification of its own: Spec (condenser              *)
(* initialize), SpecBuild (condenser build) and SpecPID (PID build).       *)
(***************************************************************************)
EXTENDS Integers, Sequences, FiniteSets, TLC

(***************************************************************************)
(* Bounds of the model.                                                    *)
(***************************************************************************)
\* Variable values of the condenser block range over 0..MaxVal.
MaxVal == 1
\* A flowsheet's time set has at most MaxLen points.
MaxLen == 3
\* The caller changes at most MaxEdits single values of a built PID block.
MaxEdits == 2

(***************************************************************************)
(* Condenser block: the components initialize() can touch, at time 0.     *)
(***************************************************************************)
\* hot_side.properties_in[0]: flow_mol, pressure, enth_mol
HotInlet == {"hot_flow_mol", "hot_pressure", "hot_enth_mol"}
\* cold_side.properties_in[0]: flow_mol, enth_mol
ColdInlet == {"cold_flow_mol", "cold_enth_mol"}
\* area, overall_heat_transfer_coefficient[0] and the inlet state variables
BlockVars == {"area", "overall_heat_transfer_coefficient"}
               \cup HotInlet \cup ColdInlet
BlockCons == {"heat_transfer_equation", "saturation_eqn"}

Vals == 0..MaxVal
None == "None"
\* the values initialize() accepts for unfix, and one it does not
ValidUnfix == {"hot_flow", "cold_flow", "pressure"}
UnfixArgs == ValidUnfix \cup {"flowrate"}
\* a state_args dictionary is abstracted to the one guess it carries
StateArgs == {-1} \cup Vals
\* termination conditions idaeslog.condition(res) can report
Converged == {"optimal"}
NonConverged == {"maxIterations"}
Conditions == Converged \cup NonConverged

VARIABLES
  fixed,          \* BlockVars -> BOOLEAN : Var.fixed
  active,         \* BlockCons -> BOOLEAN : Constraint.active
  value,          \* BlockVars -> Vals    : Var.value
  pc,             \* position inside initialize()
  unfix,          \* argument unfix
  state_args_1,   \* argument state_args_1 (-1: None)
  state_args_2,   \* argument state_args_2 (-1: None)
  istate,         \* the to_json snapshot
  opt,            \* TRUE once pyo.SolverFactory(solver) has run
  flags1,         \* flags returned by side_1.initialize
  flags2,         \* flags returned by side_2.initialize
  res,            \* termination condition of opt.solve, None before
  nsolve,         \* number of opt.solve(blk) invocations
  ninit,          \* number of control-volume initialize invocations
  log,            \* init_log records
  exc,            \* exception that left initialize(), None if none
  pre,            \* history: flags and values at the call
  seqUnfixed,     \* history: variables lines 343-348 called unfix() on
  events          \* history: the statements of initialize() completed so far

\* HelmNtuCondenser construction
VARIABLES
  config,         \* the block's config: side names and the keys it holds
  bpc,            \* position inside build()
  bexc,           \* exception that left build(), None if none
  bvars,          \* Vars created on the block
  attr,           \* control-volume attributes of the block: name -> volume
  ports,          \* ports created on the block
  bcons           \* constraints and expressions created on the block

buildVars == <<config, bpc, bexc, bvars, attr, ports, bcons>>

\* PIDBlock construction and the values its expressions read
VARIABLES
  pconfig,        \* config: pv, output given or None; calculate_initial_integral
  time_set,       \* flowsheet().time, an increasing sequence
  ppc,            \* position inside build()
  pexc,           \* exception that left build(), None if none
  pcomps,         \* names of the components created on the block
  output_constraint, \* the constraint: time point -> its equation
  setpoint,       \* Var setpoint: time point -> value (<<>> while unset)
  gain,           \* Var gain
  time_i,         \* Var time_i
  time_d,         \* Var time_d
  err_d0,         \* Var err_d0
  err_i0_var,     \* Var err_i0 (calculate_initial_integral=False)
  pv,             \* the measured variable config.pv refers to
  output,         \* the controlled variable config.output refers to
  nedits          \* single-value changes made so far

pidVars == <<pconfig, time_set, ppc, pexc, pcomps, output_constraint, setpoint,
             gain, time_i, time_d, err_d0, err_i0_var, pv, output, nedits>>

initVars == <<fixed, active, value, pc, unfix, state_args_1, state_args_2,
              istate, opt, flags1, flags2, res, nsolve, ninit, log, exc,
              pre, seqUnfixed, events>>

vars == <<initVars, buildVars, pidVars>>

NoState == [taken |-> FALSE, fixed |-> <<>>, active |-> <<>>, value |-> <<>>]
NoPre == [fixed |-> <<>>, active |-> <<>>, value |-> <<>>]

\* The block as build() leaves it: variables free, constraints active.
InitCondenser ==
  /\ fixed = [v \in BlockVars |-> FALSE]
  /\ active = [c \in BlockCons |-> TRUE]
  /\ value = [v \in BlockVars |-> 0]
  /\ pc = "idle"
  /\ unfix = None
  /\ state_args_1 = -1
  /\ state_args_2 = -1
  /\ istate = NoState
  /\ opt = FALSE
  /\ flags1 = <<>>
  /\ flags2 = <<>>
  /\ res = None
  /\ nsolve = 0
  /\ ninit = 0
  /\ log = <<>>
  /\ exc = None
  /\ pre = NoPre
  /\ seqUnfixed = {}
  /\ events = <<>>

callVars == <<unfix, state_args_1, state_args_2, istate, opt, flags1, flags2,
              res, nsolve, ninit, log, exc, pre, seqUnfixed, events>>

(***************************************************************************)
(* The caller's specification of the problem, set between construction    *)
(* and the call of initialize().                                           *)
(***************************************************************************)
UserFix(v) ==
  /\ pc = "idle"
  /\ ~fixed[v]
  /\ fixed' = [fixed EXCEPT ![v] = TRUE]
  /\ UNCHANGED <<active, value, pc, callVars>>
  /\ UNCHANGED <<buildVars, pidVars>>

UserUnfix(v) ==
  /\ pc = "idle"
  /\ fixed[v]
  /\ fixed' = [fixed EXCEPT ![v] = FALSE]
  /\ UNCHANGED <<active, value, pc, callVars>>
  /\ UNCHANGED <<buildVars, pidVars>>

UserActivate(c) ==
  /\ pc = "idle"
  /\ ~active[c]
  /\ active' = [active EXCEPT ![c] = TRUE]
  /\ UNCHANGED <<fixed, value, pc, callVars>>
  /\ UNCHANGED <<buildVars, pidVars>>

UserDeactivate(c) ==
  /\ pc = "idle"
  /\ active[c]
  /\ active' = [active EXCEPT ![c] = FALSE]
  /\ UNCHANGED <<fixed, value, pc, callVars>>
  /\ UNCHANGED <<buildVars, pidVars>>

(***************************************************************************)
(* initialize(), one action per statement.                                 *)
(***************************************************************************)
\* Mutant: the argument check accepts every value.
UnfixAcceptedAlways(u) == TRUE

\* line 319: unfix in {"hot_flow", "cold_flow", "pressure"}
UnfixAccepted(u) == u \in ValidUnfix

\* Call and argument check: an unknown unfix raises at once.
Initialize(u, sa1, sa2) ==
  /\ pc = "idle"
  /\ unfix' = u
  /\ state_args_1' = sa1
  /\ state_args_2' = sa2
  /\ pre' = [fixed |-> fixed, active |-> active, value |-> value]
  /\ IF UnfixAccepted(u)
       THEN pc' = "to_json" /\ exc' = None
       ELSE pc' = "raised" /\ exc' = "Exception"
  /\ UNCHANGED <<fixed, active, value, istate, opt, flags1, flags2, res,
                 nsolve, ninit, log, seqUnfixed>>
  /\ events' = events
  /\ UNCHANGED <<buildVars, pidVars>>

\* StoreSpec.value_isfixed_isactive(only_fixed=True): the fixed flag of every
\* variable, the active flag of every constraint, the value of fixed variables.
StoredState ==
  [taken |-> TRUE,
   fixed |-> fixed,
   active |-> active,
   value |-> [v \in {x \in BlockVars : fixed[x]} |-> value[v]]]

ToJson ==
  /\ pc = "to_json"
  /\ istate' = StoredState
  /\ pc' = "SolverFactory"
  /\ UNCHANGED <<fixed, active, value, unfix, state_args_1, state_args_2, opt,
                 flags1, flags2, res, nsolve, ninit, log, exc, pre, seqUnfixed>>
  /\ events' = Append(events, "to_json")
  /\ UNCHANGED <<buildVars, pidVars>>

SolverFactory ==
  /\ pc = "SolverFactory"
  /\ opt' = TRUE
  /\ pc' = "side_1_initialize"
  /\ UNCHANGED <<fixed, active, value, unfix, state_args_1, state_args_2,
                 istate, flags1, flags2, res, nsolve, ninit, log, exc, pre,
                 seqUnfixed>>
  /\ events' = Append(events, "SolverFactory")
  /\ UNCHANGED <<buildVars, pidVars>>

\* A control-volume initializer holds the inlet state: it fixes every inlet
\* state variable and returns which of them were fixed before; a free inlet
\* variable takes the guess of state_args when one is given.
HeldFlags(inlet) == [v \in inlet |-> fixed[v]]
HeldFixed(inlet) == [v \in BlockVars |-> IF v \in inlet THEN TRUE ELSE fixed[v]]
HeldValue(inlet, sa) ==
  [v \in BlockVars |->
     IF v \in inlet /\ ~fixed[v] /\ sa # -1 THEN sa ELSE value[v]]

\* release_state(flags): an inlet variable that was free before is freed again.
Released(flags) ==
  [v \in BlockVars |->
     IF v \in DOMAIN flags /\ ~flags[v] THEN FALSE ELSE fixed[v]]

Side1Initialize ==
  /\ pc = "side_1_initialize"
  /\ ninit' = ninit + 1
  /\ \/ /\ flags1' = HeldFlags(HotInlet)
        /\ fixed' = HeldFixed(HotInlet)
        /\ value' = HeldValue(HotInlet, state_args_1)
        /\ pc' = "side_2_initialize"
        /\ exc' = exc
     \/ /\ pc' = "raised"
        /\ exc' = "side_1.initialize"
        /\ UNCHANGED <<flags1, fixed, value>>
  /\ UNCHANGED <<active, unfix, state_args_1, state_args_2, istate, opt,
                 flags2, res, nsolve, log, pre, seqUnfixed>>
  /\ events' = IF pc' = "raised" THEN events
                ELSE Append(events, "side_1.initialize")
  /\ UNCHANGED <<buildVars, pidVars>>

Side2Initialize ==
  /\ pc = "side_2_initialize"
  /\ ninit' = ninit + 1
  /\ \/ /\ flags2' = HeldFlags(ColdInlet)
        /\ fixed' = HeldFixed(ColdInlet)
        /\ value' = HeldValue(ColdInlet, state_args_2)
        /\ pc' = "activate"
        /\ exc' = exc
        /\ log' = Append(log, <<"Initialization Step 1 Complete.">>)
     \/ /\ pc' = "raised"
        /\ exc' = "side_2.initialize"
        /\ UNCHANGED <<flags2, fixed, value, log>>
  /\ UNCHANGED <<active, unfix, state_args_1, state_args_2, istate, opt,
                 flags1, res, nsolve, pre, seqUnfixed>>
  /\ events' = IF pc' = "raised" THEN events
                ELSE Append(events, "side_2.initialize")
  /\ UNCHANGED <<buildVars, pidVars>>

\* Mutant: the cold_flow branch frees the hot-side flow as well.
UnfixTargetsBothFlows(u) ==
  CASE u = "pressure" -> {"hot_pressure"}
    [] u = "hot_flow" -> {"hot_flow_mol"}
    [] u = "cold_flow" -> {"cold_flow_mol", "hot_flow_mol"}
    [] OTHER -> {}

\* lines 343-348: the variable each branch of the if/elif chain unfixes
UnfixTargets(u) ==
  CASE u = "pressure" -> {"hot_pressure"}
    [] u = "hot_flow" -> {"hot_flow_mol"}
    [] u = "cold_flow" -> {"cold_flow_mol"}
    [] OTHER -> {}

\* lines 342-348: saturation_eqn.activate() and the selected unfix()
ActivateAndUnfix ==
  /\ pc = "activate"
  /\ active' = [active EXCEPT !["saturation_eqn"] = TRUE]
  /\ fixed' = [v \in BlockVars |->
                 IF v \in UnfixTargets(unfix) THEN FALSE ELSE fixed[v]]
  /\ seqUnfixed' = seqUnfixed \cup UnfixTargets(unfix)
  /\ pc' = "solve"
  /\ UNCHANGED <<value, unfix, state_args_1, state_args_2, istate, opt, flags1,
                 flags2, res, nsolve, ninit, log, exc, pre>>
  /\ events' = events \o <<"saturation_eqn.activate", "unfix">>
  /\ UNCHANGED <<buildVars, pidVars>>

\* Mutant: a solve that did not converge is run again.
AfterSolveRetry(cond) == IF cond \in Converged THEN "log" ELSE "solve"

\* lines 351-352: whatever the termination condition, the next statement is
\* the init_log record.
AfterSolve(cond) == "log"

\* lines 350-351: the solver moves the free variables and reports a
\* termination condition, or raises.
Solve ==
  /\ pc = "solve"
  /\ opt
  /\ nsolve' = nsolve + 1
  /\ \/ \E cond \in Conditions, nv \in Vals :
          /\ res' = cond
          /\ value' = [v \in BlockVars |-> IF fixed[v] THEN value[v] ELSE nv]
          /\ pc' = AfterSolve(cond)
          /\ exc' = exc
     \/ /\ pc' = "raised"
        /\ exc' = "opt.solve"
        /\ UNCHANGED <<res, value>>
  /\ UNCHANGED <<fixed, active, unfix, state_args_1, state_args_2, istate, opt,
                 flags1, flags2, ninit, log, pre, seqUnfixed>>
  /\ events' = IF pc' = "raised" THEN events ELSE Append(events, "solve")
  /\ UNCHANGED <<buildVars, pidVars>>

\* Mutant: the snapshot is restored straight after the solve is logged, and
\* the inlet states are never released.
AfterLogRestores == "from_json"

\* lines 356-357: the statement after the init_log record is
\* side_1.release_state
AfterLog == "release_1"

\* lines 352-354
LogCondition ==
  /\ pc = "log"
  /\ log' = Append(log, <<"Initialization Step 4", res>>)
  /\ pc' = AfterLog
  /\ UNCHANGED <<fixed, active, value, unfix, state_args_1, state_args_2,
                 istate, opt, flags1, flags2, res, nsolve, ninit, exc, pre,
                 seqUnfixed>>
  /\ events' = Append(events, "log")
  /\ UNCHANGED <<buildVars, pidVars>>

\* line 357: side_1 is handed back the flags its own initializer returned
ReleaseState1 ==
  /\ pc = "release_1"
  /\ fixed' = Released(flags1)
  /\ pc' = "release_2"
  /\ UNCHANGED <<active, value, unfix, state_args_1, state_args_2, istate, opt,
                 flags1, flags2, res, nsolve, ninit, log, exc, pre, seqUnfixed>>
  /\ events' = Append(events, "side_1.release_state")
  /\ UNCHANGED <<buildVars, pidVars>>

\* line 358: side_2 is handed back the flags its own initializer returned
ReleaseState2 ==
  /\ pc = "release_2"
  /\ fixed' = Released(flags2)
  /\ pc' = "from_json"
  /\ UNCHANGED <<active, value, unfix, state_args_1, state_args_2, istate, opt,
                 flags1, flags2, res, nsolve, ninit, log, exc, pre, seqUnfixed>>
  /\ events' = Append(events, "side_2.release_state")
  /\ UNCHANGED <<buildVars, pidVars>>

\* Mutant: the restore brings back the constraints' flags only.
LoadedFixedKept == fixed

\* line 359, from_json: the stored fixed flags
LoadedFixed == istate.fixed

\* line 359, from_json: the stored active flags
LoadedActive == istate.active

\* Mutant: the restore brings back the flags and leaves every value alone.
LoadedValueKept == value

\* line 359, from_json: the stored values (those of the variables fixed then)
LoadedValue ==
  [v \in BlockVars |->
     IF v \in DOMAIN istate.value THEN istate.value[v] ELSE value[v]]

FromJson ==
  /\ pc = "from_json"
  /\ fixed' = LoadedFixed
  /\ active' = LoadedActive
  /\ value' = LoadedValue
  /\ pc' = "returned"
  /\ UNCHANGED <<unfix, state_args_1, state_args_2, istate, opt, flags1,
                 flags2, res, nsolve, ninit, log, exc, pre, seqUnfixed>>
  /\ events' = Append(events, "from_json")
  /\ UNCHANGED <<buildVars, pidVars>>

Next ==
  \/ \E v \in BlockVars : UserFix(v)
  \/ \E v \in BlockVars : UserUnfix(v)
  \/ \E c \in BlockCons : UserActivate(c)
  \/ \E c \in BlockCons : UserDeactivate(c)
  \/ \E u \in UnfixArgs, sa1 \in StateArgs, sa2 \in StateArgs :
       Initialize(u, sa1, sa2)
  \/ ToJson
  \/ SolverFactory
  \/ Side1Initialize
  \/ Side2Initialize
  \/ ActivateAndUnfix
  \/ Solve
  \/ LogCondition
  \/ ReleaseState1
  \/ ReleaseState2
  \/ FromJson


(***************************************************************************)
(* HelmNtuCondenser construction: _process_config() and build().           *)
(***************************************************************************)
\* names a caller may give a side; "shell" and "tube" are the defaults
SideNames == {"shell", "tube", "side_1", "side_2", "hot_side", "cold_side"}
\* options of self.CONFIG: those build() reads (lines 132, 154-155) and those
\* _make_heat_exchanger_config declares (lines 38-71)
Declared == {"dynamic", "has_holdup", "property_package", "hot_side_name",
             "cold_side_name", "hot_side_config", "cold_side_config"}
\* keys a caller may add to the implicit config block: a side's config under
\* the side's name, or an option this block does not declare
ImplicitKeys == SideNames \cup {"delta_temperature_callback"}

Configs ==
  [hot_side_name : SideNames, cold_side_name : SideNames,
   implicit : SUBSET ImplicitKeys,
   hot_side_config : {"default"}, cold_side_config : {"default"}]

\* for o in config
ConfigKeys(cfg) == Declared \cup cfg.implicit

NoAttr == [n \in SideNames |-> None]

BuildAtRest ==
  /\ config = [hot_side_name |-> "shell", cold_side_name |-> "tube",
               implicit |-> {}, hot_side_config |-> "default",
               cold_side_config |-> "default"]
  /\ bpc = "at_rest"
  /\ bexc = None
  /\ bvars = {}
  /\ attr = NoAttr
  /\ ports = {}
  /\ bcons = <<>>

InitBuild ==
  /\ config \in Configs
  /\ bpc = "build"
  /\ bexc = None
  /\ bvars = {}
  /\ attr = NoAttr
  /\ ports = {}
  /\ bcons = <<>>

\* line 124: super().build()
SuperBuild ==
  /\ bpc = "build"
  /\ bpc' = "_process_config"
  /\ UNCHANGED <<config, bexc, bvars, attr, ports, bcons>>
  /\ UNCHANGED <<initVars, pidVars>>

\* Mutant: the comparison of the two side names is dropped.
SameSideNameNever(cfg) == FALSE

\* line 90
SameSideName(cfg) == cfg.hot_side_name = cfg.cold_side_name

\* lines 97-100: the keys that are neither in self.CONFIG nor a side name
UndefinedOptions(cfg) ==
  {o \in ConfigKeys(cfg) :
     ~(o \in Declared \/ o \in {cfg.hot_side_name, cfg.cold_side_name})}

\* lines 103-110: a side's config given under the side's name
ConfigByName(cfg) ==
  [cfg EXCEPT
     !.hot_side_config =
        IF cfg.hot_side_name \in ConfigKeys(cfg) THEN "by_name" ELSE @,
     !.cold_side_config =
        IF cfg.cold_side_name \in ConfigKeys(cfg) THEN "by_name" ELSE @]

\* lines 85-110 (called at line 125)
ProcessConfig ==
  /\ bpc = "_process_config"
  /\ IF SameSideName(config)
       THEN bpc' = "raised" /\ bexc' = "NameError" /\ config' = config
       ELSE IF UndefinedOptions(config) # {}
         THEN bpc' = "raised" /\ bexc' = "KeyError" /\ config' = config
         ELSE bpc' = "add_variables" /\ bexc' = bexc
              /\ config' = ConfigByName(config)
  /\ UNCHANGED <<bvars, attr, ports, bcons>>
  /\ UNCHANGED <<initVars, pidVars>>

\* lines 132-145
AddVariables ==
  /\ bpc = "add_variables"
  /\ bvars' = {"overall_heat_transfer_coefficient", "area"}
  /\ bpc' = "add_control_volumes"
  /\ UNCHANGED <<config, bexc, attr, ports, bcons>>
  /\ UNCHANGED <<initVars, pidVars>>

\* lines 150-163: each control volume becomes the attribute of its side name
AddControlVolumes ==
  /\ bpc = "add_control_volumes"
  /\ attr' = [[attr EXCEPT ![config.hot_side_name] = "hot"]
                EXCEPT ![config.cold_side_name] = "cold"]
  /\ bpc' = "add_references"
  /\ UNCHANGED <<config, bexc, bvars, ports, bcons>>
  /\ UNCHANGED <<initVars, pidVars>>

\* if not hasattr(self, name): add_object_reference(self, name, obj)
Referenced(a, name, obj) ==
  IF a[name] = None THEN [a EXCEPT ![name] = obj] ELSE a

\* lines 169-176
AddReferences ==
  /\ bpc = "add_references"
  /\ attr' = Referenced(Referenced(Referenced(Referenced(attr,
                "side_1", "hot"), "side_2", "cold"),
                "hot_side", "hot"), "cold_side", "cold")
  /\ bpc' = "add_ports"
  /\ UNCHANGED <<config, bexc, bvars, ports, bcons>>
  /\ UNCHANGED <<initVars, pidVars>>

\* lines 181-217: a port on side_1 and side_2 each, named after the side names
AddPorts ==
  /\ bpc = "add_ports"
  /\ ports' = {[name |-> <<config.hot_side_name, "inlet">>,
                block |-> attr["side_1"]],
               [name |-> <<config.cold_side_name, "inlet">>,
                block |-> attr["side_2"]],
               [name |-> <<config.hot_side_name, "outlet">>,
                block |-> attr["side_1"]],
               [name |-> <<config.cold_side_name, "outlet">>,
                block |-> attr["side_2"]]}
  /\ bpc' = "add_constraints"
  /\ UNCHANGED <<config, bexc, bvars, attr, bcons>>
  /\ UNCHANGED <<initVars, pidVars>>

\* lines 222-277: each constraint or expression with the volumes it reads
AddConstraints ==
  /\ bpc = "add_constraints"
  /\ bcons' =
       [c \in {"unit_heat_balance", "delta_temperature_in",
               "delta_temperature_out", "delta_temperature_ntu", "mcp_min",
               "ntu", "effectiveness", "heat_transfer",
               "heat_transfer_equation", "saturation_eqn"} |->
          CASE c \in {"unit_heat_balance", "delta_temperature_in",
                      "delta_temperature_out", "delta_temperature_ntu",
                      "heat_transfer"} -> {attr["side_1"], attr["side_2"]}
            [] c \in {"mcp_min", "heat_transfer_equation"} -> {attr["side_2"]}
            [] c = "saturation_eqn" -> {attr["side_1"]}
            [] OTHER -> {}]
  /\ bpc' = "built"
  /\ UNCHANGED <<config, bexc, bvars, attr, ports>>
  /\ UNCHANGED <<initVars, pidVars>>

NextBuild ==
  \/ SuperBuild
  \/ ProcessConfig
  \/ AddVariables
  \/ AddControlVolumes
  \/ AddReferences
  \/ AddPorts
  \/ AddConstraints

(***************************************************************************)
(* PIDBlock: build() and the expressions it emits.                         *)
(***************************************************************************)
\* first points and step widths of the time sets considered
FirstPoints == {-1, 0, 1}
Steps == {1, 2}

RECURSIVE TimeSetsOfLen(_)
TimeSetsOfLen(n) ==
  IF n = 1 THEN {<<a>> : a \in FirstPoints}
  ELSE {Append(ts, ts[Len(ts)] + d) : ts \in TimeSetsOfLen(n - 1), d \in Steps}

TimeSets == UNION {TimeSetsOfLen(n) : n \in 1..MaxLen}

\* values a caller gives the signals and the controller settings
SignalVals == {0, 1}
GainVals == {1, 2}
TimeIVals == {1, 2}
TimeDVals == {0, 1}

PidConfigs ==
  [pv : {None, "pv"}, output : {None, "output"},
   calculate_initial_integral : BOOLEAN]

TimePoints == {time_set[i] : i \in 1..Len(time_set)}
\* time_set.first()
t0 == time_set[1]
IndexOf(t) == CHOOSE i \in 1..Len(time_set) : time_set[i] = t
\* time_set.prev(t)
prev(t) == time_set[IndexOf(t) - 1]

PidAtRest ==
  /\ pconfig = [pv |-> None, output |-> None,
                calculate_initial_integral |-> TRUE]
  /\ time_set = <<0>>
  /\ ppc = "at_rest"
  /\ pexc = None
  /\ pcomps = {}
  /\ output_constraint = <<>>
  /\ setpoint = <<>>
  /\ gain = <<>>
  /\ time_i = <<>>
  /\ time_d = <<>>
  /\ err_d0 = 0
  /\ err_i0_var = 0
  /\ pv = <<>>
  /\ output = <<>>
  /\ nedits = 0

\* A flowsheet with its time set and signals, and a PIDBlock to be built.
InitPID ==
  /\ pconfig \in PidConfigs
  /\ time_set \in TimeSets
  /\ ppc = "build"
  /\ pexc = None
  /\ pcomps = {}
  /\ output_constraint = <<>>
  /\ setpoint = <<>>
  /\ gain = <<>>
  /\ time_i = <<>>
  /\ time_d = <<>>
  /\ err_d0 = 0
  /\ err_i0_var = 0
  /\ pv = [t \in TimePoints |-> 0]
  /\ output = [t \in TimePoints |-> 0]
  /\ nedits = 0

valueVars == <<setpoint, gain, time_i, time_d, err_d0, err_i0_var, pv, output,
               nedits>>

\* line 64: super().build()
PidSuperBuild ==
  /\ ppc = "build"
  /\ ppc' = "check_config"
  /\ UNCHANGED <<pconfig, time_set, pexc, pcomps, output_constraint, valueVars>>
  /\ UNCHANGED <<initVars, buildVars>>

\* Mutant: only pv is required.
OutputMissingIgnored(cfg) == FALSE

\* line 66
PvMissing(cfg) == cfg.pv = None

\* line 68
OutputMissing(cfg) == cfg.output = None

\* lines 66-69
CheckConfig ==
  /\ ppc = "check_config"
  /\ IF PvMissing(pconfig) \/ OutputMissing(pconfig)
       THEN ppc' = "raised" /\ pexc' = "ConfigurationError"
       ELSE ppc' = "create_vars" /\ pexc' = pexc
  /\ UNCHANGED <<pconfig, time_set, pcomps, output_constraint, valueVars>>
  /\ UNCHANGED <<initVars, buildVars>>

\* lines 71-87: the Vars (err_d0 and err_i0 initialised to 0 and fixed) and
\* the references to pv and output
CreateVars ==
  /\ ppc = "create_vars"
  /\ pcomps' = pcomps \cup {"setpoint", "gain", "time_i", "time_d", "err_d0",
                            "pv", "output"}
                 \cup (IF ~pconfig.calculate_initial_integral
                         THEN {"err_i0"} ELSE {})
  /\ err_d0' = 0
  /\ err_i0_var' = 0
  /\ ppc' = "create_expressions"
  /\ UNCHANGED <<pconfig, time_set, pexc, output_constraint, setpoint, gain,
                 time_i, time_d, pv, output, nedits>>
  /\ UNCHANGED <<initVars, buildVars>>

\* lines 89-119
CreateExpressions ==
  /\ ppc = "create_expressions"
  /\ pcomps' = pcomps \cup {"err", "pterm", "dterm", "iterm", "limits",
                            "smooth_eps", "err_d"}
  /\ ppc' = "create_err_i0"
  /\ UNCHANGED <<pconfig, time_set, pexc, output_constraint, valueVars>>
  /\ UNCHANGED <<initVars, buildVars>>

\* line 127: the index at which err_i0 reads the output
ErrI0OutputIndex == 0

\* lines 124-128: the rule reads b.output[0], a KeyError when 0 is no point
\* of the time set
CreateErrI0 ==
  /\ ppc = "create_err_i0"
  /\ IF pconfig.calculate_initial_integral
       THEN IF ErrI0OutputIndex \in TimePoints
              THEN /\ pcomps' = pcomps \cup {"err_i0"}
                   /\ ppc' = "create_output_law"
                   /\ pexc' = pexc
              ELSE /\ ppc' = "raised"
                   /\ pexc' = "KeyError"
                   /\ pcomps' = pcomps
       ELSE /\ ppc' = "create_output_law"
            /\ UNCHANGED <<pcomps, pexc>>
  /\ UNCHANGED <<pconfig, time_set, output_constraint, valueVars>>
  /\ UNCHANGED <<initVars, buildVars>>

\* Mutant: the constraint is skipped at time 0 instead of the first point.
SkippedAtZero(t) == t = 0

\* line 147: if t == t0: return pyo.Constraint.Skip
Skipped(t) == t = t0

\* lines 150-152: output[t] == smooth_min(smooth_max(unconstrained_output[t],
\* l, e), h, e)
OutputEquation(t) ==
  [lhs |-> [var |-> "output", at |-> t],
   rhs |-> [fn |-> "smooth_min",
            a |-> [fn |-> "smooth_max",
                   a |-> [expr |-> "unconstrained_output", at |-> t],
                   b |-> "limits[l]", eps |-> "smooth_eps"],
            b |-> "limits[h]", eps |-> "smooth_eps"]]

\* lines 129-152
CreateOutputLaw ==
  /\ ppc = "create_output_law"
  /\ pcomps' = pcomps \cup {"err_i", "unconstrained_output",
                            "output_constraint"}
  /\ output_constraint' =
       [t \in {x \in TimePoints : ~Skipped(x)} |-> OutputEquation(t)]
  /\ ppc' = "built"
  /\ UNCHANGED <<pconfig, time_set, pexc, valueVars>>
  /\ UNCHANGED <<initVars, buildVars>>

(***************************************************************************)
(* The caller of a built block: the controller settings are fixed, then    *)
(* single values change (a setpoint step, a measurement, ...).             *)
(***************************************************************************)
Tuned == gain # <<>>

FixTuning(sp, k, ti, td) ==
  /\ ppc = "built"
  /\ ~Tuned
  /\ setpoint' = [t \in TimePoints |-> sp]
  /\ gain' = [t \in TimePoints |-> k]
  /\ time_i' = [t \in TimePoints |-> ti]
  /\ time_d' = [t \in TimePoints |-> td]
  /\ UNCHANGED <<pconfig, time_set, ppc, pexc, pcomps, output_constraint,
                 err_d0, err_i0_var, pv, output, nedits>>
  /\ UNCHANGED <<initVars, buildVars>>

CanEdit == ppc = "built" /\ Tuned /\ nedits < MaxEdits

SetSetpoint(t, v) ==
  /\ CanEdit
  /\ setpoint[t] # v
  /\ setpoint' = [setpoint EXCEPT ![t] = v]
  /\ nedits' = nedits + 1
  /\ UNCHANGED <<pconfig, time_set, ppc, pexc, pcomps, output_constraint,
                 gain, time_i, time_d, err_d0, err_i0_var, pv, output>>
  /\ UNCHANGED <<initVars, buildVars>>

SetPv(t, v) ==
  /\ CanEdit
  /\ pv[t] # v
  /\ pv' = [pv EXCEPT ![t] = v]
  /\ nedits' = nedits + 1
  /\ UNCHANGED <<pconfig, time_set, ppc, pexc, pcomps, output_constraint,
                 setpoint, gain, time_i, time_d, err_d0, err_i0_var, output>>
  /\ UNCHANGED <<initVars, buildVars>>

SetOutput(t, v) ==
  /\ CanEdit
  /\ output[t] # v
  /\ output' = [output EXCEPT ![t] = v]
  /\ nedits' = nedits + 1
  /\ UNCHANGED <<pconfig, time_set, ppc, pexc, pcomps, output_constraint,
                 setpoint, gain, time_i, time_d, err_d0, err_i0_var, pv>>
  /\ UNCHANGED <<initVars, buildVars>>

SetErrD0(v) ==
  /\ CanEdit
  /\ err_d0 # v
  /\ err_d0' = v
  /\ nedits' = nedits + 1
  /\ UNCHANGED <<pconfig, time_set, ppc, pexc, pcomps, output_constraint,
                 setpoint, gain, time_i, time_d, err_i0_var, pv, output>>
  /\ UNCHANGED <<initVars, buildVars>>

SetErrI0(v) ==
  /\ CanEdit
  /\ ~pconfig.calculate_initial_integral
  /\ err_i0_var # v
  /\ err_i0_var' = v
  /\ nedits' = nedits + 1
  /\ UNCHANGED <<pconfig, time_set, ppc, pexc, pcomps, output_constraint,
                 setpoint, gain, time_i, time_d, err_d0, pv, output>>
  /\ UNCHANGED <<initVars, buildVars>>

NextPID ==
  \/ PidSuperBuild
  \/ CheckConfig
  \/ CreateVars
  \/ CreateExpressions
  \/ CreateErrI0
  \/ CreateOutputLaw
  \/ \E sp \in SignalVals, k \in GainVals, ti \in TimeIVals, td \in TimeDVals :
       FixTuning(sp, k, ti, td)
  \/ \E t \in TimePoints, v \in SignalVals : SetSetpoint(t, v)
  \/ \E t \in TimePoints, v \in SignalVals : SetPv(t, v)
  \/ \E t \in TimePoints, v \in SignalVals : SetOutput(t, v)
  \/ \E v \in SignalVals : SetErrD0(v)
  \/ \E v \in SignalVals : SetErrI0(v)

(***************************************************************************)
(* The values of the expressions, in exact rational arithmetic: a number   *)
(* is a pair <<numerator, denominator>> with a positive denominator.       *)
(***************************************************************************)
Rat(n) == <<n, 1>>
RAdd(a, b) == <<a[1] * b[2] + b[1] * a[2], a[2] * b[2]>>
RSub(a, b) == <<a[1] * b[2] - b[1] * a[2], a[2] * b[2]>>
RMul(a, b) == <<a[1] * b[1], a[2] * b[2]>>
RDiv(a, b) ==
  IF b[1] > 0 THEN <<a[1] * b[2], a[2] * b[1]>>
  ELSE <<-(a[1] * b[2]), -(a[2] * b[1])>>
REq(a, b) == a[1] * b[2] = b[1] * a[2]

\* lines 89-91
err(t) == Rat(setpoint[t] - pv[t])
\* lines 93-95
pterm(t) == Rat(-pv[t])
\* Mutant: the derivative acts on the error, setpoint included.
dtermOnError(t) == Rat(setpoint[t] - pv[t])

\* lines 96-98
dterm(t) == Rat(-pv[t])
\* lines 99-101
iterm(t) == err(t)

\* lines 113-119
err_d(t) ==
  IF t = t0 THEN Rat(err_d0)
  ELSE RDiv(RSub(dterm(t), dterm(prev(t))), Rat(t - prev(t)))

\* lines 124-128, or the Var of lines 82-84
err_i0 ==
  IF pconfig.calculate_initial_integral
    THEN RDiv(RMul(Rat(time_i[t0]),
                   RSub(RSub(Rat(output[ErrI0OutputIndex]),
                             RMul(Rat(gain[t0]), pterm(t0))),
                        RMul(RMul(Rat(gain[t0]), Rat(time_d[t0])), err_d(t0)))),
              Rat(gain[t0]))
    ELSE Rat(err_i0_var)

\* Mutant: the sum stops one point short of t_end.
InIntegralBeforeEnd(t, t_end) == t < t_end /\ t > t0

\* line 134: for t in time_set if t <= t_end and t > t0
InIntegral(t, t_end) == t <= t_end /\ t > t0

\* line 132-133: one term of the sum
Trapezoid(t) ==
  RDiv(RMul(RAdd(iterm(t), iterm(prev(t))), Rat(t - prev(t))), Rat(2))

\* the sum over the points time_set[i..], in the order of the time set
RECURSIVE TrapezoidSum(_, _)
TrapezoidSum(i, t_end) ==
  IF i > Len(time_set) THEN Rat(0)
  ELSE IF InIntegral(time_set[i], t_end)
    THEN RAdd(Trapezoid(time_set[i]), TrapezoidSum(i + 1, t_end))
    ELSE TrapezoidSum(i + 1, t_end)

\* lines 130-134
err_i(t_end) == RAdd(err_i0, TrapezoidSum(1, t_end))

\* lines 136-140
unconstrained_output(t) ==
  RMul(Rat(gain[t]),
       RAdd(RAdd(pterm(t), RMul(RDiv(Rat(1), Rat(time_i[t])), err_i(t))),
            RMul(Rat(time_d[t]), err_d(t))))

(***************************************************************************)
(* The specifications.                                                     *)
(***************************************************************************)
\* initialize() on a condenser block
Init == InitCondenser /\ BuildAtRest /\ PidAtRest

Spec == Init /\ [][Next]_vars

\* construction of a condenser block
InitSpecBuild == InitCondenser /\ InitBuild /\ PidAtRest

SpecBuild == InitSpecBuild /\ [][NextBuild]_vars

\* construction and use of a PID block
InitSpecPID == InitCondenser /\ BuildAtRest /\ InitPID

SpecPID == InitSpecPID /\ [][NextPID]_vars

(***************************************************************************)
(* Properties of initialize().                                             *)
(***************************************************************************)
FlagsAsBefore == fixed = pre.fixed /\ active = pre.active

AfterSolvePcs == {"log", "release_1", "release_2", "from_json", "returned"}

\* C1: when initialize returns, every variable's fixed flag and every
\* constraint's active flag equals its value at the call, whatever the
\* termination condition of the solve.
C1_FlagsRestoredOnReturn == pc = "returned" => FlagsAsBefore

\* C1 witness: a return after a solve that did not converge, from a call that
\* found saturation_eqn inactive, the selected variable fixed and a cold inlet
\* variable free.
C1_Witness ==
  /\ pc = "returned"
  /\ res \in NonConverged
  /\ unfix = "hot_flow"
  /\ pre.fixed["hot_flow_mol"]
  /\ ~pre.fixed["cold_flow_mol"]
  /\ ~pre.active["saturation_eqn"]

\* C2: once the snapshot is taken, the flags are back at their pre-call state
\* whenever control leaves initialize, also by an exception of a
\* control-volume initializer or of the solver.
C2_FlagsRestoredOnEveryExit ==
  (pc \in {"returned", "raised"} /\ istate.taken) => FlagsAsBefore

\* C3: a call with an unfix outside {"hot_flow", "cold_flow", "pressure"}
\* raises at once: no solver is created or run, no control-volume initializer
\* runs, no snapshot is taken, no flag or value of the block changes.
C3_InvalidUnfixRaisesFirst ==
  (pc # "idle" /\ unfix \notin ValidUnfix) =>
    /\ pc = "raised"
    /\ exc = "Exception"
    /\ ~opt
    /\ nsolve = 0
    /\ ninit = 0
    /\ ~istate.taken
    /\ log = <<>>
    /\ FlagsAsBefore
    /\ value = pre.value

\* C3 witness: unfix="flowrate" has raised on a block with a fixed variable.
C3_Witness ==
  /\ pc = "raised"
  /\ unfix = "flowrate"
  /\ exc = "Exception"
  /\ fixed["area"]

\* C4: after a whole-block solve that reports a non-converged condition,
\* initialize has not raised and has solved exactly once; it goes on to log
\* the condition, release both inlet states and restore the snapshot, and
\* returns.
C4_NonConvergedDoesNotRaiseOrRetry ==
  res \in NonConverged =>
    /\ pc \in AfterSolvePcs
    /\ exc = None
    /\ nsolve = 1
    /\ pc # "log" => log[Len(log)] = <<"Initialization Step 4", res>>
    /\ pc # "returned" =>
         ENABLED (LogCondition \/ ReleaseState1 \/ ReleaseState2 \/ FromJson)
    /\ pc = "returned" => FlagsAsBefore

\* C4 witness: a normal return with a non-converged condition in the log.
C4_Witness ==
  /\ pc = "returned"
  /\ res = "maxIterations"
  /\ nsolve = 1
  /\ log[Len(log)] = <<"Initialization Step 4", "maxIterations">>
  /\ pre.fixed["hot_pressure"]

\* the variable the claim names for each unfix value
Selected(u) ==
  CASE u = "hot_flow" -> "hot_flow_mol"
    [] u = "cold_flow" -> "cold_flow_mol"
    [] u = "pressure" -> "hot_pressure"

Candidates == {"hot_flow_mol", "cold_flow_mol", "hot_pressure"}

NothingBuilt == bvars = {} /\ attr = NoAttr /\ ports = {} /\ bcons = <<>>

\* C10: construction raises when hot_side_name equals cold_side_name and when
\* the config holds a key that is neither a declared option nor a side name;
\* the error comes from _process_config, before any variable, control volume,
\* port or constraint of the block exists.
C10_ConfigErrorsRaiseBeforeBuilding ==
  LET same == config.hot_side_name = config.cold_side_name
      undefined == \E k \in config.implicit :
                      /\ k \notin Declared
                      /\ k # config.hot_side_name
                      /\ k # config.cold_side_name
  IN  /\ bpc \in {"build", "_process_config"} => NothingBuilt
      /\ (same \/ undefined) =>
           /\ bpc \in {"build", "_process_config", "raised"}
           /\ NothingBuilt
           /\ bpc = "raised" =>
                bexc = (IF same THEN "NameError" ELSE "KeyError")
      /\ bpc = "raised" => (same \/ undefined)

\* C10 witness: the two sides are named alike and construction has raised.
C10_Witness ==
  /\ bpc = "raised"
  /\ bexc = "NameError"
  /\ config.hot_side_name = "shell"
  /\ config.cold_side_name = "shell"
  /\ config.implicit = {"shell"}

(***************************************************************************)
(* Properties of the PID block.                                            *)
(***************************************************************************)
\* C6: build generates an output_constraint for every time point other than
\* the first point of the time set, equating output[t] to the smoothed clamp
\* of unconstrained_output[t] between the limits l and h, and none at the
\* first point.
C6_OutputConstraintExceptAtT0 ==
  /\ ppc # "built" => output_constraint = <<>>
  /\ ppc = "built" =>
       /\ DOMAIN output_constraint =
            {time_set[i] : i \in 2..Len(time_set)}
       /\ time_set[1] \notin DOMAIN output_constraint
       /\ \A t \in DOMAIN output_constraint :
            /\ output_constraint[t].lhs = [var |-> "output", at |-> t]
            /\ output_constraint[t].rhs.fn = "smooth_min"
            /\ output_constraint[t].rhs.b = "limits[h]"
            /\ output_constraint[t].rhs.a.fn = "smooth_max"
            /\ output_constraint[t].rhs.a.b = "limits[l]"
            /\ output_constraint[t].rhs.a.a =
                 [expr |-> "unconstrained_output", at |-> t]

\* C6 witness: a block built on the time set -1, 0, 2 holds the constraint
\* at 0 and at 2.
C6_Witness ==
  /\ ppc = "built"
  /\ time_set = <<-1, 0, 2>>
  /\ DOMAIN output_constraint = {0, 2}

\* the PID law at t with the integral error ei and the derivative error ed
PidLaw(t, ei, ed) ==
  RMul(Rat(gain[t]),
       RAdd(RAdd(pterm(t), RDiv(ei, Rat(time_i[t]))),
            RMul(Rat(time_d[t]), ed)))

\* C7: whatever the first point t0 of the time set, with
\* calculate_initial_integral the expression err_i0 is back-solved from the
\* output at t0: out[t0] = K[t0]*(pterm[t0] + err_i0/Ti[t0] + Td[t0]*err_d0).
C7_ErrI0BackSolvedFromOutputAtT0 ==
  (ppc = "built" /\ Tuned /\ pconfig.calculate_initial_integral) =>
    REq(Rat(output[t0]), PidLaw(t0, err_i0, Rat(err_d0)))

\* C8: err_i[t0] = err_i0, and for every later point t of the time set
\* err_i[t] - err_i[prev(t)] = (iterm[t] + iterm[prev(t)])*(t - prev(t))/2.
C8_TrapezoidalRecurrence ==
  (ppc = "built" /\ Tuned) =>
    /\ REq(err_i(time_set[1]), err_i0)
    /\ \A i \in 2..Len(time_set) :
         LET t == time_set[i]
             tp == time_set[i - 1]
         IN  REq(RSub(err_i(t), err_i(tp)),
                 RDiv(RMul(Rat((setpoint[t] - pv[t]) + (setpoint[tp] - pv[tp])),
                           Rat(t - tp)),
                      Rat(2)))

\* C8 witness: three points starting at -1 with unequal steps, a setpoint
\* error at each, and an integral error that grows from point to point.
C8_Witness ==
  /\ ppc = "built"
  /\ Tuned
  /\ time_set = <<-1, 0, 2>>
  /\ \A t \in TimePoints : setpoint[t] = 1 /\ pv[t] = 0
  /\ REq(RSub(err_i(0), err_i0), Rat(1))
  /\ REq(RSub(err_i(2), err_i0), Rat(3))

\* C9: build raises a ConfigurationError when config.pv or config.output is
\* None, before any variable, parameter, expression or constraint of the
\* block is created.
C9_MissingReferenceRaisesFirst ==
  LET missing == pconfig.pv = None \/ pconfig.output = None
  IN  /\ ppc \in {"build", "check_config"} => pcomps = {}
      /\ missing =>
           /\ ppc \in {"build", "check_config", "raised"}
           /\ pcomps = {}
           /\ output_constraint = <<>>
           /\ ppc = "raised" => pexc = "ConfigurationError"

\* C9 witness: pv is given, output is not, and build has raised.
C9_Witness ==
  /\ ppc = "raised"
  /\ pexc = "ConfigurationError"
  /\ pconfig.pv = "pv"
  /\ pconfig.output = None
  /\ Len(time_set) = 2

(***************************************************************************)
(* Order of the statements of initialize() and the values it leaves.       *)
(***************************************************************************)
\* the statements of initialize() that change the block, in the order claimed
MutatingOrder ==
  <<"to_json", "side_1.initialize", "side_2.initialize",
    "saturation_eqn.activate", "unfix", "solve", "side_1.release_state",
    "side_2.release_state", "from_json">>

IsMutating(e) == \E i \in 1..Len(MutatingOrder) : MutatingOrder[i] = e

IsPrefix(s, t) ==
  /\ Len(s) <= Len(t)
  /\ \A i \in 1..Len(s) : s[i] = t[i]

\* C12: in every valid call of initialize the snapshot is taken before any
\* flag is changed; the hot-side and then the cold-side control-volume
\* initialization complete before saturation_eqn is activated and the selected
\* variable is unfixed; these precede the solve; both release_state calls come
\* after the solve; and the restore of the snapshot is the last step, after
\* both release_state calls.
C12_StepsInOrder ==
  /\ IsPrefix(SelectSeq(events, IsMutating), MutatingOrder)
  /\ (pc # "idle" /\ ~istate.taken) => FlagsAsBefore
  /\ istate.taken =>
       /\ Len(events) >= 1
       /\ events[1] = "to_json"
       /\ istate.fixed = pre.fixed
       /\ istate.active = pre.active
  /\ flags2 # <<>> => flags1 # <<>>
  /\ seqUnfixed # {} => (flags1 # <<>> /\ flags2 # <<>> /\ ninit = 2)
  /\ nsolve > 0 => seqUnfixed # {}
  /\ (nsolve > 0 /\ pc # "returned") => active["saturation_eqn"]
  /\ pc \in {"release_2", "from_json", "returned"} => res # None
  /\ pc = "returned" =>
       /\ SelectSeq(events, IsMutating) = MutatingOrder
       /\ events[Len(events)] = "from_json"

\* C12 witness: a call that has returned, whose control-volume initializers
\* fixed free inlet variables and whose solve ran on the unfixed pressure.
C12_Witness ==
  /\ pc = "returned"
  /\ unfix = "pressure"
  /\ pre.fixed["hot_pressure"]
  /\ ~pre.fixed["cold_flow_mol"]
  /\ ~pre.active["saturation_eqn"]
  /\ nsolve = 1
  /\ Len(events) = 11

\* C14: when initialize returns, every variable that was fixed before the
\* call holds its value of before the call, the inlet variable selected by
\* unfix included; only a variable that was free before the call may hold a
\* value the solver gave it.
C14_FixedValuesRestored ==
  pc = "returned" =>
    /\ \A v \in BlockVars : pre.fixed[v] => value[v] = pre.value[v]
    /\ \A v \in BlockVars : value[v] # pre.value[v] => ~pre.fixed[v]

\* C14 witness: the hot-side flow was fixed before the call and selected by
\* unfix, the solver moved every free variable (the area, free before the
\* call, still holds the solver's value), and the flow is back at its value.
C14_Witness ==
  /\ pc = "returned"
  /\ unfix = "hot_flow"
  /\ seqUnfixed = {"hot_flow_mol"}
  /\ pre.fixed["hot_flow_mol"]
  /\ ~pre.fixed["area"]
  /\ value["area"] # pre.value["area"]
  /\ value["hot_flow_mol"] = pre.value["hot_flow_mol"]

(***************************************************************************)
(* The solid names of the condenser's sides.                               *)
(***************************************************************************)
\* C13: for every pair of distinct side names, after build the attributes
\* side_1 and hot_side refer to the hot-side control volume and side_2 and
\* cold_side to the cold-side control volume, so that mcp_min reads the cold
\* side and saturation_eqn the hot side.
C13_SolidNamesReferToTheirSides ==
  bpc = "built" =>
    /\ attr["side_1"] = "hot"
    /\ attr["hot_side"] = "hot"
    /\ attr["side_2"] = "cold"
    /\ attr["cold_side"] = "cold"
    /\ bcons["mcp_min"] = {"cold"}
    /\ bcons["saturation_eqn"] = {"hot"}

(***************************************************************************)
(* The derivative error of the PID block.                                  *)
(***************************************************************************)
\* C15: err_d at the first point of the time set is err_d0; at every later
\* point t it is the backward difference (-pv[t] + pv[prev(t)])/(t - prev(t))
\* against the point just before t; and a change of the setpoint, at any
\* point, leaves err_d unchanged at every point.
C15_DerivativeOnMeasurement ==
  /\ [] ((ppc = "built" /\ Tuned) =>
           /\ REq(err_d(time_set[1]), Rat(err_d0))
           /\ \A i \in 2..Len(time_set) :
                LET t == time_set[i]
                    tp == time_set[i - 1]
                IN  REq(err_d(t), RDiv(Rat(pv[tp] - pv[t]), Rat(t - tp))))
  /\ [][(ppc = "built" /\ Tuned /\ setpoint' # setpoint) =>
           \A i \in 1..Len(time_set) :
             REq(err_d(time_set[i])', err_d(time_set[i]))]_vars

\* C15 witness: two points two apart, the setpoint stepped between them and
\* the measurement changed, so that the derivative error at the second point
\* is non-zero and differs from the difference of the errors.
C15_Witness ==
  /\ ppc = "built"
  /\ Tuned
  /\ time_set = <<0, 2>>
  /\ setpoint[0] # setpoint[2]
  /\ pv[0] = 1
  /\ pv[2] = 0
  /\ REq(err_d(2), <<1, 2>>)

====
